---- MODULE Spec2Model ----
(***************************************************************************)
(* A model of NoTraceEdit (src/main.py): the MessageEditor request         *)
(* pipeline (extract_fetch_data, edit_message_without_mark,                *)
(* send_request_directly) and the interactive cycle around it              *)
(* (get_fetch_request, get_new_content_and_nonce, process_message,         *)
(* process_user_choice, handle_direct_request, main).                      *)
(*                                                                         *)
(* Text is modelled character by character: a Python str is a sequence of  *)
(* one-character strings, so that the regular expressions, str.replace,    *)
(* json.loads and json.dumps are computed the way the library computes     *)
(* them on the characters the model draws.                                 *)
(***************************************************************************)
EXTENDS Integers, Sequences, FiniteSets, TLC

(***************************************************************************)
(* Characters and elementary str operations                                *)
(***************************************************************************)
QUOTE == "\""
BSLASH == "\\"
LBRACE == "{"
RBRACE == "}"
SQUOTE == "'"

\* The characters the regular expression class \s and str.strip() remove.
WS == {" ", "\n", "\t"}

\* The characters the regular expression class \d accepts.
DIGITS == {"0", "1", "2", "3", "4", "5", "6", "7", "8", "9"}

\* s.startswith(lit, p - 1): lit occurs in s at position p.
IsPrefixAt(s, p, lit) ==
    /\ p >= 1
    /\ p + Len(lit) - 1 <= Len(s)
    /\ \A i \in 1..Len(lit) : s[p + i - 1] = lit[i]

\* The first position at or after p whose character is not in the set cs
\* (Len(s) + 1 when there is none): the end of a greedy run of cs.
RECURSIVE SkipSet(_, _, _)
SkipSet(s, p, cs) ==
    IF p > Len(s) \/ s[p] \notin cs THEN p ELSE SkipSet(s, p + 1, cs)

\* The first position at or after p whose character is c (Len(s) + 1 when
\* there is none): the end of a greedy run of [^c].
RECURSIVE FindChar(_, _, _)
FindChar(s, p, c) ==
    IF p > Len(s) \/ s[p] = c THEN p ELSE FindChar(s, p + 1, c)

\* The last position at or before p whose character is not whitespace.
RECURSIVE RSkipWS(_, _)
RSkipWS(s, p) ==
    IF p < 1 \/ s[p] \notin WS THEN p ELSE RSkipWS(s, p - 1)

\* str.strip()
strip(s) == SubSeq(s, SkipSet(s, 1, WS), RSkipWS(s, Len(s)))

\* str.startswith(lit)
startswith(s, lit) == IsPrefixAt(s, 1, lit)

\* str.replace(old, new): every occurrence of old, leftmost first and without
\* overlap, replaced by new.
RECURSIVE ReplaceFrom(_, _, _, _)
ReplaceFrom(s, p, old, new) ==
    IF p > Len(s) THEN <<>>
    ELSE IF IsPrefixAt(s, p, old)
         THEN new \o ReplaceFrom(s, p + Len(old), old, new)
         ELSE <<s[p]>> \o ReplaceFrom(s, p + 1, old, new)

replace(s, old, new) == ReplaceFrom(s, 1, old, new)

\* sep.join(parts)
RECURSIVE join(_, _)
join(sep, parts) ==
    IF parts = <<>> THEN <<>>
    ELSE IF Len(parts) = 1 THEN parts[1]
    ELSE parts[1] \o sep \o join(sep, Tail(parts))

\* The least element of a non-empty set of integers.
Least(S) == CHOOSE x \in S : \A y \in S : x <= y

(***************************************************************************)
(* JSON values.  A str is [t |-> "str", s |-> characters]; true, false,    *)
(* null and integers are [t |-> "lit", s |-> their text]; a list is        *)
(* [t |-> "list", id, items |-> sequence of values]; a dict is             *)
(* [t |-> "dict", id, items |-> sequence of <<key, value>>] in insertion   *)
(* order, as Python dicts are.  id is the identity of the Python object    *)
(* (what id(obj) tells): two containers are the same object, and share     *)
(* storage, exactly when their ids are equal.                              *)
(***************************************************************************)
Str(s) == [t |-> "str", s |-> s]
Lit(s) == [t |-> "lit", s |-> s]
List(id, items) == [t |-> "list", id |-> id, items |-> items]
Dict(id, items) == [t |-> "dict", id |-> id, items |-> items]

\* key in d
HasKey(d, k) == \E i \in 1..Len(d.items) : d.items[i][1] = k

\* d[key], for a key that is present
Get(d, k) == d.items[CHOOSE i \in 1..Len(d.items) : d.items[i][1] = k][2]

\* d.get(key, default)
GetOr(d, k, default) == IF HasKey(d, k) THEN Get(d, k) ELSE default

\* d[key] = v on the item sequence: an existing key keeps its place, a new
\* key goes last.
SetItem(items, k, v) ==
    IF \E i \in 1..Len(items) : items[i][1] = k
    THEN [i \in 1..Len(items) |-> IF items[i][1] = k THEN <<k, v>> ELSE items[i]]
    ELSE Append(items, <<k, v>>)

\* The value without object identities: what Python's == compares.
RECURSIVE Plain(_)
Plain(v) ==
    IF v.t = "dict"
    THEN [t |-> "dict",
          items |-> [i \in 1..Len(v.items) |-> <<v.items[i][1], Plain(v.items[i][2])>>]]
    ELSE IF v.t = "list"
    THEN [t |-> "list", items |-> [i \in 1..Len(v.items) |-> Plain(v.items[i])]]
    ELSE v

\* The identities of the mutable objects (dicts and lists) reachable from v.
RECURSIVE Objects(_)
Objects(v) ==
    IF v.t = "dict"
    THEN {v.id} \cup UNION {Objects(v.items[i][2]) : i \in 1..Len(v.items)}
    ELSE IF v.t = "list"
    THEN {v.id} \cup UNION {Objects(v.items[i]) : i \in 1..Len(v.items)}
    ELSE {}

(***************************************************************************)
(* json.loads.  A parse step returns [ok, val, pos]: whether it succeeded, *)
(* the value, and the position after it.  ok = FALSE stands for the        *)
(* JSONDecodeError the library raises.                                     *)
(***************************************************************************)
ParseFail == [ok |-> FALSE, val |-> Lit(<<>>), pos |-> 0]
ParseOk(v, p) == [ok |-> TRUE, val |-> v, pos |-> p]

\* The text of a JSON string from position i (after the opening quote) to
\* the closing quote, with the escapes decoded.  A raw control character,
\* an unknown escape or a missing closing quote is an error.
RECURSIVE ScanString(_, _, _)
ScanString(t, i, acc) ==
    IF i > Len(t) THEN ParseFail
    ELSE IF t[i] = QUOTE THEN ParseOk(Str(acc), i + 1)
    ELSE IF t[i] \in {"\n", "\t"} THEN ParseFail
    ELSE IF t[i] = BSLASH
    THEN IF i + 1 > Len(t) THEN ParseFail
         ELSE IF t[i + 1] \in {QUOTE, BSLASH, "/"}
              THEN ScanString(t, i + 2, Append(acc, t[i + 1]))
         ELSE IF t[i + 1] = "n" THEN ScanString(t, i + 2, Append(acc, "\n"))
         ELSE IF t[i + 1] = "t" THEN ScanString(t, i + 2, Append(acc, "\t"))
         ELSE ParseFail
    ELSE ScanString(t, i + 1, Append(acc, t[i]))

TRUE_TEXT == <<"t", "r", "u", "e">>
FALSE_TEXT == <<"f", "a", "l", "s", "e">>
NULL_TEXT == <<"n", "u", "l", "l">>

RECURSIVE ParseValue(_, _, _)
RECURSIVE ParseMembers(_, _, _, _, _)
RECURSIVE MemberValue(_, _, _, _, _)
RECURSIVE MemberNext(_, _, _, _, _, _)
RECURSIVE ParseElements(_, _, _, _, _)
RECURSIVE ElementNext(_, _, _, _, _)

\* One JSON value at position p (leading whitespace skipped).  root names
\* the json.loads call; a container parsed at position q is the new object
\* <<root, q>>.
ParseValue(t, p, root) ==
    LET q == SkipSet(t, p, WS) IN
    IF q > Len(t) THEN ParseFail
    ELSE IF t[q] = QUOTE THEN ScanString(t, q + 1, <<>>)
    ELSE IF t[q] = LBRACE
    THEN LET r == SkipSet(t, q + 1, WS) IN
         IF r <= Len(t) /\ t[r] = RBRACE
         THEN ParseOk(Dict(<<root, q>>, <<>>), r + 1)
         ELSE ParseMembers(t, r, root, q, <<>>)
    ELSE IF t[q] = "["
    THEN LET r == SkipSet(t, q + 1, WS) IN
         IF r <= Len(t) /\ t[r] = "]"
         THEN ParseOk(List(<<root, q>>, <<>>), r + 1)
         ELSE ParseElements(t, r, root, q, <<>>)
    ELSE IF IsPrefixAt(t, q, TRUE_TEXT) THEN ParseOk(Lit(TRUE_TEXT), q + 4)
    ELSE IF IsPrefixAt(t, q, FALSE_TEXT) THEN ParseOk(Lit(FALSE_TEXT), q + 5)
    ELSE IF IsPrefixAt(t, q, NULL_TEXT) THEN ParseOk(Lit(NULL_TEXT), q + 4)
    ELSE IF t[q] = "0" THEN ParseOk(Lit(<<"0">>), q + 1)
    ELSE IF t[q] \in DIGITS
    THEN LET e == SkipSet(t, q, DIGITS) IN ParseOk(Lit(SubSeq(t, q, e - 1)), e)
    ELSE ParseFail

\* The members of the object opened at position q, from position p (at the
\* next key) on; items are the members read so far.
ParseMembers(t, p, root, q, items) ==
    IF p > Len(t) \/ t[p] # QUOTE THEN ParseFail
    ELSE MemberValue(t, root, q, items, ScanString(t, p + 1, <<>>))

\* The member whose key is the parse k: the colon and the value.
MemberValue(t, root, q, items, k) ==
    IF ~k.ok THEN ParseFail
    ELSE LET c == SkipSet(t, k.pos, WS) IN
         IF c > Len(t) \/ t[c] # ":" THEN ParseFail
         ELSE MemberNext(t, root, q, items, k, ParseValue(t, c + 1, root))

\* After the member of key k and value v: the end of the object, or a
\* comma and the next member.
MemberNext(t, root, q, items, k, v) ==
    IF ~v.ok THEN ParseFail
    ELSE LET e == SkipSet(t, v.pos, WS)
             now == SetItem(items, k.val.s, v.val)
         IN  IF e > Len(t) THEN ParseFail
             ELSE IF t[e] = RBRACE THEN ParseOk(Dict(<<root, q>>, now), e + 1)
             ELSE IF t[e] = "," THEN ParseMembers(t, SkipSet(t, e + 1, WS), root, q, now)
             ELSE ParseFail

\* The elements of the array opened at position q, from position p on.
ParseElements(t, p, root, q, items) ==
    ElementNext(t, root, q, items, ParseValue(t, p, root))

\* After the element v: the end of the array, or a comma and the next
\* element.
ElementNext(t, root, q, items, v) ==
    IF ~v.ok THEN ParseFail
    ELSE LET e == SkipSet(t, v.pos, WS)
             now == Append(items, v.val)
         IN  IF e > Len(t) THEN ParseFail
             ELSE IF t[e] = "]" THEN ParseOk(List(<<root, q>>, now), e + 1)
             ELSE IF t[e] = "," THEN ParseElements(t, e + 1, root, q, now)
             ELSE ParseFail

\* The parse v stands if only whitespace follows it ("Extra data" if not).
WholeText(t, v) ==
    IF v.ok /\ SkipSet(t, v.pos, WS) > Len(t) THEN v ELSE ParseFail

\* json.loads(t): the value, or ok = FALSE where the library raises (no
\* value, a malformed value, or text after the value).
json_loads(t, root) == WholeText(t, ParseValue(t, 1, root))

(***************************************************************************)
(* json.dumps                                                              *)
(***************************************************************************)
\* The JSON escapes of the characters of a str.
RECURSIVE EscapeChars(_)
EscapeChars(s) ==
    IF s = <<>> THEN <<>>
    ELSE (IF Head(s) = QUOTE THEN <<BSLASH, QUOTE>>
          ELSE IF Head(s) = BSLASH THEN <<BSLASH, BSLASH>>
          ELSE IF Head(s) = "\n" THEN <<BSLASH, "n">>
          ELSE IF Head(s) = "\t" THEN <<BSLASH, "t">>
          ELSE <<Head(s)>>) \o EscapeChars(Tail(s))

EncodeString(s) == <<QUOTE>> \o EscapeChars(s) \o <<QUOTE>>

\* n levels of indentation, two spaces each (indent=2).
RECURSIVE Indentation(_)
Indentation(n) == IF n = 0 THEN <<>> ELSE <<" ", " ">> \o Indentation(n - 1)

\* json.dumps(v) when ~pretty, json.dumps(v, indent=2) when pretty; level
\* is the nesting depth of v.
RECURSIVE Encode(_, _, _)
Encode(v, pretty, level) ==
    IF v.t = "str" THEN EncodeString(v.s)
    ELSE IF v.t = "lit" THEN v.s
    ELSE LET n == Len(v.items)
             open == IF v.t = "dict" THEN <<LBRACE>> ELSE <<"[">>
             close == IF v.t = "dict" THEN <<RBRACE>> ELSE <<"]">>
             part(i) ==
                 IF v.t = "dict"
                 THEN EncodeString(v.items[i][1]) \o <<":", " ">>
                          \o Encode(v.items[i][2], pretty, level + 1)
                 ELSE Encode(v.items[i], pretty, level + 1)
             parts == [i \in 1..n |-> part(i)]
         IN  IF n = 0 THEN open \o close
             ELSE IF pretty
             THEN open \o <<"\n">> \o Indentation(level + 1)
                      \o join(<<",", "\n">> \o Indentation(level + 1), parts)
                      \o <<"\n">> \o Indentation(level) \o close
             ELSE open \o join(<<",", " ">>, parts) \o close

json_dumps(v) == Encode(v, FALSE, 0)
json_dumps_indent2(v) == Encode(v, TRUE, 0)

(***************************************************************************)
(* The three regular expressions of extract_fetch_data.  A match is        *)
(* [found, group]: whether the pattern matches and the text of group 1.    *)
(***************************************************************************)
NoMatch == [found |-> FALSE, group |-> <<>>]
Match(g) == [found |-> TRUE, group |-> g]

\* re.search: the match at the leftmost position where the pattern matches.
Search(t, MatchAt(_, _)) ==
    LET hits == {p \in 1..Len(t) : MatchAt(t, p).found} IN
    IF hits = {} THEN NoMatch ELSE MatchAt(t, Least(hits))

\* fetch("
FETCH_OPEN == <<"f", "e", "t", "c", "h", "(", "\"">>
\* https://discord.com/api/v
URL_HEAD == <<"h", "t", "t", "p", "s", ":", "/", "/", "d", "i", "s", "c", "o", "r", "d", ".", "c", "o", "m", "/", "a", "p", "i", "/", "v">>
\* /channels/
URL_CHANNELS == <<"/", "c", "h", "a", "n", "n", "e", "l", "s", "/">>
\* /messages
URL_MESSAGES == <<"/", "m", "e", "s", "s", "a", "g", "e", "s">>
\* "headers":
HEADERS_KEY == <<"\"", "h", "e", "a", "d", "e", "r", "s", "\"", ":">>
\* "body":
BODY_KEY == <<"\"", "b", "o", "d", "y", "\"", ":">>

\* fetch\("(https://discord\.com/api/v\d+/channels/\d+/messages)" at p
UrlMatchAt(t, p) ==
    IF ~IsPrefixAt(t, p, FETCH_OPEN \o URL_HEAD) THEN NoMatch
    ELSE LET a == p + Len(FETCH_OPEN)
             b == a + Len(URL_HEAD)
             c == SkipSet(t, b, DIGITS)
             d == c + Len(URL_CHANNELS)
             e == SkipSet(t, d, DIGITS)
             f == e + Len(URL_MESSAGES)
         IN  IF /\ c > b
                /\ IsPrefixAt(t, c, URL_CHANNELS)
                /\ e > d
                /\ IsPrefixAt(t, e, URL_MESSAGES \o <<QUOTE>>)
             THEN Match(SubSeq(t, a, f - 1))
             ELSE NoMatch

\* "headers":\s*({[^}]+}) at p
HeadersMatchAt(t, p) ==
    IF ~IsPrefixAt(t, p, HEADERS_KEY) THEN NoMatch
    ELSE LET a == SkipSet(t, p + Len(HEADERS_KEY), WS)
             b == FindChar(t, a + 1, RBRACE)
         IN  IF a <= Len(t) /\ t[a] = LBRACE /\ b > a + 1 /\ b <= Len(t)
             THEN Match(SubSeq(t, a, b))
             ELSE NoMatch

\* "body":\s*"({[^}]+})" at p
BodyMatchAt(t, p) ==
    IF ~IsPrefixAt(t, p, BODY_KEY) THEN NoMatch
    ELSE LET a == SkipSet(t, p + Len(BODY_KEY), WS)
             b == FindChar(t, a + 2, RBRACE)
         IN  IF /\ IsPrefixAt(t, a, <<QUOTE, LBRACE>>)
                /\ b > a + 2
                /\ IsPrefixAt(t, b, <<RBRACE, QUOTE>>)
             THEN Match(SubSeq(t, a + 1, b))
             ELSE NoMatch

url_match(t) == Search(t, UrlMatchAt)
headers_match(t) == Search(t, HeadersMatchAt)
body_match(t) == Search(t, BodyMatchAt)

(***************************************************************************)
(* extract_fetch_data                                                      *)
(***************************************************************************)
CONTENT == <<"c", "o", "n", "t", "e", "n", "t">>
NONCE == <<"n", "o", "n", "c", "e">>
REFERER == <<"r", "e", "f", "e", "r", "e", "r">>

\* Python's None.
None == [none |-> TRUE]

FetchData(url, headers, body, original_nonce, original_content) ==
    [url |-> url, headers |-> headers, body |-> body,
     original_nonce |-> original_nonce, original_content |-> original_content]

\* What leaves a block of code: a returned value, or a raised exception.
Return(v) == [raised |-> FALSE, val |-> v]
Raise(e) == [raised |-> TRUE, val |-> e]

\* headers_match.group(1).replace("'", '"'), then json.loads
headers_loads(t) == json_loads(replace(headers_match(t).group, <<SQUOTE>>, <<QUOTE>>), "headers")

\* body_match.group(1).replace('\\"', '"'), then json.loads
body_loads(t) == json_loads(replace(body_match(t).group, <<BSLASH, QUOTE>>, <<QUOTE>>), "body")

\* extract_checked without the nonce check, the nonce read with a default.
extract_checked_nonce_optional(fetch_text, headers, body) ==
    IF ~body.ok THEN Raise("JSONDecodeError")
    ELSE Return(FetchData(url_match(fetch_text).group, headers.val, body.val,
                          GetOr(body.val, NONCE, Str(<<>>)),
                          GetOr(body.val, CONTENT, Str(<<>>))))

\* extract_fetch_data from the nonce check on: body is the parsed body.
extract_checked(fetch_text, headers, body) ==
    IF ~body.ok THEN Raise("JSONDecodeError")
    ELSE IF ~HasKey(body.val, NONCE) THEN Return(None)
    ELSE Return(FetchData(url_match(fetch_text).group, headers.val, body.val,
                          Get(body.val, NONCE), GetOr(body.val, CONTENT, Str(<<>>))))

\* extract_fetch_data from the body pattern on: headers is the parsed
\* headers block.
extract_body(fetch_text, headers) ==
    IF ~headers.ok THEN Raise("JSONDecodeError")
    ELSE IF ~body_match(fetch_text).found THEN Return(None)
    ELSE extract_checked(fetch_text, headers, body_loads(fetch_text))

\* The body of the try statement of extract_fetch_data.
extract_try(fetch_text) ==
    IF ~url_match(fetch_text).found THEN Return(None)
    ELSE IF ~headers_match(fetch_text).found THEN Return(None)
    ELSE extract_body(fetch_text, headers_loads(fetch_text))

\* except Exception: the exception is reported and None returned.
extract_except(r) == IF r.raised THEN Return(None) ELSE r

\* extract_fetch_data: what leaves it, a returned record or None.
extract_fetch_data(fetch_text) == extract_except(extract_try(fetch_text))

(***************************************************************************)
(* edit_message_without_mark                                               *)
(***************************************************************************)
\* https://discord.com/channels/@me
DEFAULT_REFERRER == <<"h", "t", "t", "p", "s", ":", "/", "/", "d", "i", "s", "c", "o", "r", "d", ".", "c", "o", "m", "/", "c", "h", "a", "n", "n", "e", "l", "s", "/", "@", "m", "e">>

\* What an f-string puts for a value: a str as it is, True, False and None
\* by their Python names, an integer by its digits.
Format(v) ==
    IF v.t = "str" THEN v.s
    ELSE IF v.s = TRUE_TEXT THEN <<"T", "r", "u", "e">>
    ELSE IF v.s = FALSE_TEXT THEN <<"F", "a", "l", "s", "e">>
    ELSE IF v.s = NULL_TEXT THEN <<"N", "o", "n", "e">>
    ELSE v.s

\* dict.copy(): a new dict object holding the same values (a shallow copy).
dict_copy(d) == Dict(<<"copy", 0>>, d.items)

\* new_body that sets the content and leaves the captured nonce.
new_body_keeps_nonce(fetch_data, new_content, new_nonce) ==
    Dict(dict_copy(fetch_data.body).id,
         SetItem(fetch_data.body.items, CONTENT, Str(new_content)))

\* new_body of edit_message_without_mark.
new_body(fetch_data, new_content, new_nonce) ==
    LET copy == dict_copy(fetch_data.body) IN
    Dict(copy.id, SetItem(SetItem(copy.items, CONTENT, Str(new_content)),
                          NONCE, Str(new_nonce)))

\* body_escaped of edit_message_without_mark.
body_escaped(body) == replace(json_dumps(body), <<QUOTE>>, <<BSLASH, QUOTE>>)

\* The f-string of edit_message_without_mark, line by line.
fetch_request(url, headers, referrer, body) ==
    join(<<"\n">>, <<
        \* fetch("{url}", {
        FETCH_OPEN \o url \o <<"\"", ",", " ", "{">>,
        \*   "headers": {headers_json},
        <<" ", " ">> \o HEADERS_KEY \o <<" ">> \o json_dumps_indent2(headers) \o <<",">>,
        \*   "referrer": "{referrer}",
        <<" ", " ", "\"", "r", "e", "f", "e", "r", "r", "e", "r", "\"", ":", " ", "\"">>
            \o referrer \o <<"\"", ",">>,
        \*   "referrerPolicy": "strict-origin-when-cross-origin",
        <<" ", " ", "\"", "r", "e", "f", "e", "r", "r", "e", "r", "P", "o", "l", "i", "c", "y", "\"", ":", " ", "\"", "s", "t", "r", "i", "c", "t", "-", "o", "r", "i", "g", "i", "n", "-", "w", "h", "e", "n", "-", "c", "r", "o", "s", "s", "-", "o", "r", "i", "g", "i", "n", "\"", ",">>,
        \*   "body": "{body_escaped}",
        <<" ", " ">> \o BODY_KEY \o <<" ", "\"">> \o body_escaped(body) \o <<"\"", ",">>,
        \*   "method": "POST",
        <<" ", " ", "\"", "m", "e", "t", "h", "o", "d", "\"", ":", " ", "\"", "P", "O", "S", "T", "\"", ",">>,
        \*   "mode": "cors",
        <<" ", " ", "\"", "m", "o", "d", "e", "\"", ":", " ", "\"", "c", "o", "r", "s", "\"", ",">>,
        \*   "credentials": "include"
        <<" ", " ", "\"", "c", "r", "e", "d", "e", "n", "t", "i", "a", "l", "s", "\"", ":", " ", "\"", "i", "n", "c", "l", "u", "d", "e", "\"">>,
        \* });
        <<"}", ")", ";">> >>)

\* request_data of edit_message_without_mark: the headers are the captured
\* headers object itself.
request_data_of(fetch_data, body) ==
    [url |-> fetch_data.url, headers |-> fetch_data.headers, json |-> body]

\* edit_message_without_mark: raises ValueError without a record, else
\* returns (fetch_request, request_data).
edit_message_without_mark(fetch_data, new_content, new_nonce) ==
    IF fetch_data = None THEN Raise("ValueError")
    ELSE LET body == new_body(fetch_data, new_content, new_nonce)
             referrer == Format(GetOr(fetch_data.headers, REFERER, Str(DEFAULT_REFERRER)))
         IN  Return([fetch_request |-> fetch_request(fetch_data.url, fetch_data.headers,
                                                     referrer, body),
                     request_data |-> request_data_of(fetch_data, body)])

(***************************************************************************)
(* send_request_directly.  net is what the network does with the POST:     *)
(* [kind |-> "response", status, text] for an HTTP response, or            *)
(* [kind |-> "raise", exc] for an exception out of requests.post.          *)
(***************************************************************************)
\* The exceptions that are requests.RequestException (a response body that
\* is not JSON makes response.json() raise requests' JSONDecodeError).
RequestExceptions == {"Timeout", "ConnectionError", "JSONDecodeError"}

Success(data) == [success |-> TRUE, data |-> data]
Failure(diagnostic) == [success |-> FALSE, data |-> diagnostic]

\* response.json(), for the parse of the response text.
response_json(parsed) ==
    IF parsed.ok THEN Return(Success(parsed.val)) ELSE Raise("JSONDecodeError")

\* send_try that takes every status below 400 for a success.
send_try_any_ok(request_data, net) ==
    IF net.kind = "raise" THEN Raise(net.exc)
    ELSE IF net.status < 400 THEN response_json(json_loads(net.text, "response"))
    ELSE Return(Failure([kind |-> "http", status |-> net.status, text |-> net.text]))

\* The body of the try statement of send_request_directly.
send_try(request_data, net) ==
    IF net.kind = "raise" THEN Raise(net.exc)
    ELSE IF net.status = 200 THEN response_json(json_loads(net.text, "response"))
    ELSE Return(Failure([kind |-> "http", status |-> net.status, text |-> net.text]))

\* The two except clauses: the exception becomes a Failure that carries
\* its message.
send_except(r) ==
    IF ~r.raised THEN r
    ELSE IF r.val \in RequestExceptions
    THEN Return(Failure([kind |-> "network", msg |-> r.val]))
    ELSE Return(Failure([kind |-> "unexpected", msg |-> r.val]))

\* send_request_directly: what leaves it.
send_request_directly(request_data, net) == send_except(send_try(request_data, net))

(***************************************************************************)
(* The decisions of the interactive cycle                                  *)
(***************************************************************************)
\* fetch(
FETCH_CALL == <<"f", "e", "t", "c", "h", "(">>

max_attempts == 3

\* clipboard_content.strip().startswith("fetch(")
looks_like_fetch(clipboard_content) == startswith(strip(clipboard_content), FETCH_CALL)

\* The loop condition with <= for <.
loop_continues_once_more(clipboard_content, n) ==
    ~looks_like_fetch(clipboard_content) /\ n <= max_attempts

\* The condition of the while loop of get_fetch_request.
loop_continues(clipboard_content, n) ==
    ~looks_like_fetch(clipboard_content) /\ n < max_attempts

\* get_new_content_and_nonce without its check.
nonce_always_accepted(nonce) == TRUE

\* get_new_content_and_nonce returns True: the identifier is not empty.
nonce_accepted(nonce) == nonce # <<>>

\* process_message that ignores what get_fetch_request returned.
after_get_fetch_request_ignored(ok) == "content_prompt"

\* process_message after get_fetch_request: on False it asks whether to try
\* again and returns, on True it goes on to ask for the new text.
after_get_fetch_request(ok) == IF ok THEN "content_prompt" ELSE "retry_prompt"

\* A copy that does not reach the buffer.
copy_nothing(buffer, text) == buffer

\* pyperclip.copy(text): what the buffer holds afterwards.
copy(buffer, text) == text

\* The answers that make a prompt continue with another message.
YES == {"y", "1"}
wants_more(prompt, answer) ==
    IF prompt = "next_prompt" THEN answer = "1" ELSE answer \in YES

(***************************************************************************)
(* Inputs                                                                  *)
(***************************************************************************)
\* The longest new message text drawn for edit_message_without_mark.
MaxLen == 3
\* The number of cycles of main's loop that are followed.
MaxCycles == 3

\* The characters of a new message text: a letter and the three characters
\* the escaping and the body pattern treat specially.
Alphabet == {"a", QUOTE, BSLASH, RBRACE}
Texts(n) == UNION {[1..k -> Alphabet] : k \in 0..n}

\* https://discord.com/api/v9/channels/123/messages
URL_MESSAGES_123 == <<"h", "t", "t", "p", "s", ":", "/", "/", "d", "i", "s", "c", "o", "r", "d", ".", "c", "o", "m", "/", "a", "p", "i", "/", "v", "9", "/", "c", "h", "a", "n", "n", "e", "l", "s", "/", "1", "2", "3", "/", "m", "e", "s", "s", "a", "g", "e", "s">>
\* https://discord.com/api/v9/channels/123/typing
URL_TYPING_123 == <<"h", "t", "t", "p", "s", ":", "/", "/", "d", "i", "s", "c", "o", "r", "d", ".", "c", "o", "m", "/", "a", "p", "i", "/", "v", "9", "/", "c", "h", "a", "n", "n", "e", "l", "s", "/", "1", "2", "3", "/", "t", "y", "p", "i", "n", "g">>

\* The endpoints of the captures; ok: the endpoint has the messages shape.
UrlPieces == {
    [text |-> URL_MESSAGES_123, ok |-> TRUE],
    [text |-> URL_TYPING_123, ok |-> FALSE] }

\* The headers blocks of the captures; ok: the block is a JSON object, or
\* one in single quotes.  The empty text stands for a capture without a
\* headers section.
HeaderPieces == {
    \* {"authorization": "X"}
    [text |-> <<"{", "\"", "a", "u", "t", "h", "o", "r", "i", "z", "a", "t", "i", "o", "n", "\"", ":", " ", "\"", "X", "\"", "}">>, ok |-> TRUE],
    \* {'referer': 'r'}
    [text |-> <<"{", "'", "r", "e", "f", "e", "r", "e", "r", "'", ":", " ", "'", "r", "'", "}">>, ok |-> TRUE],
    \* {"authorization": }
    [text |-> <<"{", "\"", "a", "u", "t", "h", "o", "r", "i", "z", "a", "t", "i", "o", "n", "\"", ":", " ", "}">>, ok |-> FALSE],
    \* {"a": {"b": "c"}}
    [text |-> <<"{", "\"", "a", "\"", ":", " ", "{", "\"", "b", "\"", ":", " ", "\"", "c", "\"", "}", "}">>, ok |-> TRUE],
    \* {}
    [text |-> <<"{", "}">>, ok |-> TRUE],
    [text |-> <<>>, ok |-> FALSE] }

\* The escaped body blocks of the captures; ok: the block is a JSON object;
\* nonce: it has the key nonce.  The empty text stands for a capture
\* without a body section.
BodyPieces == {
    \* {\"content\":\"hi\",\"nonce\":\"111\"}
    [text |-> <<"{", "\\", "\"", "c", "o", "n", "t", "e", "n", "t", "\\", "\"", ":", "\\", "\"", "h", "i", "\\", "\"", ",", "\\", "\"", "n", "o", "n", "c", "e", "\\", "\"", ":", "\\", "\"", "1", "1", "1", "\\", "\"", "}">>, ok |-> TRUE, nonce |-> TRUE],
    \* {\"nonce\":\"111\",\"tts\":false,\"flags\":0}
    [text |-> <<"{", "\\", "\"", "n", "o", "n", "c", "e", "\\", "\"", ":", "\\", "\"", "1", "1", "1", "\\", "\"", ",", "\\", "\"", "t", "t", "s", "\\", "\"", ":", "f", "a", "l", "s", "e", ",", "\\", "\"", "f", "l", "a", "g", "s", "\\", "\"", ":", "0", "}">>, ok |-> TRUE, nonce |-> TRUE],
    \* {\"content\":\"hi\",\"nonce\":\"111\",\"sticker_ids\":[\"7\"]}
    [text |-> <<"{", "\\", "\"", "c", "o", "n", "t", "e", "n", "t", "\\", "\"", ":", "\\", "\"", "h", "i", "\\", "\"", ",", "\\", "\"", "n", "o", "n", "c", "e", "\\", "\"", ":", "\\", "\"", "1", "1", "1", "\\", "\"", ",", "\\", "\"", "s", "t", "i", "c", "k", "e", "r", "_", "i", "d", "s", "\\", "\"", ":", "[", "\\", "\"", "7", "\\", "\"", "]", "}">>, ok |-> TRUE, nonce |-> TRUE],
    \* {\"content\":\"hi\"}
    [text |-> <<"{", "\\", "\"", "c", "o", "n", "t", "e", "n", "t", "\\", "\"", ":", "\\", "\"", "h", "i", "\\", "\"", "}">>, ok |-> TRUE, nonce |-> FALSE],
    \* {\"content\":}
    [text |-> <<"{", "\\", "\"", "c", "o", "n", "t", "e", "n", "t", "\\", "\"", ":", "}">>, ok |-> FALSE, nonce |-> FALSE],
    \* {\"content\":\"}\",\"nonce\":\"111\"}
    [text |-> <<"{", "\\", "\"", "c", "o", "n", "t", "e", "n", "t", "\\", "\"", ":", "\\", "\"", "}", "\\", "\"", ",", "\\", "\"", "n", "o", "n", "c", "e", "\\", "\"", ":", "\\", "\"", "1", "1", "1", "\\", "\"", "}">>, ok |-> TRUE, nonce |-> TRUE],
    [text |-> <<>>, ok |-> FALSE, nonce |-> FALSE] }

\* The capture text of the three pieces, in the one-line form
\*   fetch("<url>", {"headers": <headers>, "body": "<body>"})
\* with the section of an absent piece left out.
CaptureText(url, headers, body) ==
    FETCH_OPEN \o url \o <<"\"", ",", " ", "{">>
        \o (IF headers = <<>> THEN <<>> ELSE HEADERS_KEY \o <<" ">> \o headers \o <<",", " ">>)
        \o (IF body = <<>> THEN <<>> ELSE BODY_KEY \o <<" ", "\"">> \o body \o <<"\"">>)
        \o <<"}", ")">>

Captures ==
    {[text |-> CaptureText(u.text, h.text, b.text),
      ok |-> u.ok /\ h.ok /\ b.ok /\ b.nonce] :
        u \in UrlPieces, h \in HeaderPieces, b \in BodyPieces}

\* hello: a buffer that holds no request at all.
JUNK == <<"h", "e", "l", "l", "o">>

\* The identifiers the user enters.
Nonces == {<<>>, <<"9", "9", "9">>}

\* What the network does with a POST.
NetOutcomes ==
    {[kind |-> "response", status |-> st, text |-> tx] :
        st \in {200, 201, 403},
        tx \in { \* {"id": "5"}
                 <<"{", "\"", "i", "d", "\"", ":", " ", "\"", "5", "\"", "}">>,
                 \* []
                 <<"[", "]">>,
                 \* Forbidden
                 <<"F", "o", "r", "b", "i", "d", "d", "e", "n">> }}
    \cup {[kind |-> "raise", exc |-> e] : e \in {"Timeout", "ConnectionError", "TypeError"}}

(***************************************************************************)
(* State                                                                   *)
(***************************************************************************)
VARIABLES
    pc,                \* where the program waits: the prompt of its next input()
    cycle,             \* the number of the current call of process_message
    clipboard,         \* the external text buffer
    clipboard_content, \* get_fetch_request's local: the text it read last
    attempts,          \* get_fetch_request's local counter
    fetch_data,        \* MessageEditor.fetch_data
    new_content,       \* MessageEditor.new_content
    new_nonce,         \* MessageEditor.new_nonce
    assigned,          \* for each field of the editor, the cycle that set it last
    edited,            \* process_message's locals fetch_request and request_data
    choice,            \* process_user_choice's local: the method chosen
    net,               \* what the network did with this cycle's POST
    posted,            \* the request this cycle's POST carried
    sent,              \* handle_direct_request's locals success and response
    log,               \* this cycle's buffer reads and writes, extract, rewrite and POST, in order
    error,             \* the error this cycle reported last
    crash,             \* the exception that reached main, if any
    reparsed           \* extract_fetch_data applied to the rewritten text

vars == <<pc, cycle, clipboard, clipboard_content, attempts, fetch_data,
          new_content, new_nonce, assigned, edited, choice, net, posted, sent,
          log, error, crash, reparsed>>

NoEdit == [none |-> "edit"]
NoNet == [kind |-> "none"]
NoPost == [none |-> "post"]
NoSend == [none |-> "send"]

\* MessageEditor.__init__, and what is common to every start.
Constructed ==
    /\ cycle = 1
    /\ clipboard_content = <<>>
    /\ attempts = 0
    /\ fetch_data = None
    /\ new_content = <<>>
    /\ new_nonce = <<>>
    /\ assigned = [fetch_data |-> 0, new_content |-> 0, new_nonce |-> 0]
    /\ edited = NoEdit
    /\ choice = ""
    /\ net = NoNet
    /\ posted = NoPost
    /\ sent = NoSend
    /\ log = <<>>
    /\ error = "none"
    /\ crash = "none"
    /\ reparsed = None

(***************************************************************************)
(* The interactive program: main, process_message and what they call.      *)
(* Every action runs the program from one input() to the next.             *)
(***************************************************************************)
\* {"authorization": "X"}
HEADERS_X == <<"{", "\"", "a", "u", "t", "h", "o", "r", "i", "z", "a", "t", "i", "o", "n", "\"", ":", " ", "\"", "X", "\"", "}">>
\* {\"content\":\"hi\",\"nonce\":\"111\"}
BODY_HI_111 == <<"{", "\\", "\"", "c", "o", "n", "t", "e", "n", "t", "\\", "\"", ":", "\\", "\"", "h", "i", "\\", "\"", ",", "\\", "\"", "n", "o", "n", "c", "e", "\\", "\"", ":", "\\", "\"", "1", "1", "1", "\\", "\"", "}">>
\* {\"content\":\"hi\"}
BODY_HI == <<"{", "\\", "\"", "c", "o", "n", "t", "e", "n", "t", "\\", "\"", ":", "\\", "\"", "h", "i", "\\", "\"", "}">>

\* What the user copies in the interactive runs: Scenario A's capture, the
\* same after a blank line, a capture whose body has no nonce, and a text
\* that is no request.
UserTexts ==
    { CaptureText(URL_MESSAGES_123, HEADERS_X, BODY_HI_111),
      <<"\n", " ">> \o CaptureText(URL_MESSAGES_123, HEADERS_X, BODY_HI_111),
      CaptureText(URL_MESSAGES_123, HEADERS_X, BODY_HI),
      JUNK }

\* The new texts the user types in the interactive runs.
UserContents == {<<"a">>, <<RBRACE>>}

Init ==
    /\ Constructed
    /\ pc = "capture_prompt"
    /\ clipboard \in UserTexts

\* get_fetch_request from line 203 on: r is what extract_fetch_data gave.
Extracted(r) ==
    IF r.raised
    THEN /\ crash' = r.val
         /\ pc' = "crashed"
         /\ UNCHANGED <<fetch_data, assigned, error>>
    ELSE /\ fetch_data' = r.val
         /\ assigned' = [assigned EXCEPT !.fetch_data = cycle]
         /\ pc' = after_get_fetch_request(r.val # None)
         /\ error' = IF r.val = None THEN "ParseFailure" ELSE error
         /\ UNCHANGED crash

\* get_fetch_request from a read of the buffer on: the user has put text
\* into the buffer (or left it) and pressed Enter, the program reads it,
\* and n is the number of attempts so far.
ReadAndCheck(text, n) ==
    /\ clipboard' = text
    /\ clipboard_content' = text
    /\ UNCHANGED <<cycle, new_content, new_nonce, edited, choice, net, posted, sent, reparsed>>
    /\ IF loop_continues(text, n)
       THEN /\ attempts' = n + 1
            /\ pc' = "recapture_prompt"
            /\ log' = Append(log, "read")
            /\ UNCHANGED <<fetch_data, assigned, error, crash>>
       ELSE IF ~looks_like_fetch(text)
       THEN /\ attempts' = n
            /\ pc' = after_get_fetch_request(FALSE)
            /\ log' = Append(log, "read")
            /\ error' = "CaptureMismatch"
            /\ UNCHANGED <<fetch_data, assigned, crash>>
       ELSE /\ attempts' = n
            /\ log' = log \o <<"read", "extract">>
            /\ Extracted(extract_fetch_data(text))

\* get_fetch_request up to its loop: the first read of the buffer.
Capture ==
    /\ pc = "capture_prompt"
    /\ \E text \in UserTexts \cup {clipboard} : ReadAndCheck(text, 0)

\* One turn of the loop of get_fetch_request: another read of the buffer.
Recapture ==
    /\ pc = "recapture_prompt"
    /\ \E text \in UserTexts \cup {clipboard} : ReadAndCheck(text, attempts)

\* get_new_content_and_nonce: the new text.
EnterContent ==
    /\ pc = "content_prompt"
    /\ \E c \in UserContents :
        /\ new_content' = c
        /\ assigned' = [assigned EXCEPT !.new_content = cycle]
    /\ pc' = "nonce_prompt"
    /\ UNCHANGED <<cycle, clipboard, clipboard_content, attempts, fetch_data,
                   new_nonce, edited, choice, net, posted, sent, log, error,
                   crash, reparsed>>

\* process_message from line 334 on: r is what edit_message_without_mark
\* gave; the rewritten request is copied to the buffer.
Rewritten(r) ==
    IF r.raised
    THEN /\ crash' = r.val
         /\ pc' = "crashed"
         /\ log' = Append(log, "rewrite")
         /\ UNCHANGED <<clipboard, edited, error>>
    ELSE /\ edited' = r.val
         /\ clipboard' = copy(clipboard, r.val.fetch_request)
         /\ log' = log \o <<"rewrite", "write">>
         /\ pc' = "choice_prompt"
         /\ UNCHANGED <<error, crash>>

\* get_new_content_and_nonce: the identifier; then process_message either
\* gives up, or rewrites and copies the rewritten request to the buffer.
EnterNonce ==
    /\ pc = "nonce_prompt"
    /\ \E n \in Nonces :
        /\ new_nonce' = n
        /\ assigned' = [assigned EXCEPT !.new_nonce = cycle]
        /\ IF ~nonce_accepted(n)
           THEN /\ error' = "EmptyIdentifier"
                /\ pc' = "retry_prompt"
                /\ UNCHANGED <<clipboard, edited, log, crash>>
           ELSE Rewritten(edit_message_without_mark(fetch_data, new_content, n))
    /\ UNCHANGED <<cycle, clipboard_content, attempts, fetch_data, new_content,
                   choice, net, posted, sent, reparsed>>

\* handle_direct_request after the POST: r is what send_request_directly
\* gave.
Sent(r) ==
    IF r.raised
    THEN /\ crash' = r.val
         /\ pc' = "crashed"
         /\ UNCHANGED <<sent, error>>
    ELSE /\ sent' = r.val
         /\ IF r.val.success
            THEN \* response.get("id", ...) needs a dict
                 IF r.val.data.t = "dict"
                 THEN /\ pc' = "next_prompt"
                      /\ UNCHANGED <<error, crash>>
                 ELSE /\ crash' = "AttributeError"
                      /\ pc' = "crashed"
                      /\ UNCHANGED error
            ELSE /\ error' = "DispatchFailure"
                 /\ pc' = "failure_prompt"
                 /\ UNCHANGED crash

\* handle_direct_request: the POST and what follows it.
HandleDirectRequest ==
    \E n \in NetOutcomes :
        /\ net' = n
        /\ posted' = edited.request_data
        /\ log' = Append(log, "post")
        /\ Sent(send_request_directly(edited.request_data, n))

\* process_user_choice
Choose ==
    /\ pc = "choice_prompt"
    /\ \E c \in {"1", "2", "3", "x"} :
        /\ choice' = c
        /\ IF c = "1" THEN HandleDirectRequest
           ELSE /\ pc' = IF c = "3" THEN "done" ELSE "restart_prompt"
                /\ UNCHANGED <<net, posted, sent, log, error, crash>>
    /\ UNCHANGED <<cycle, clipboard, clipboard_content, attempts, fetch_data,
                   new_content, new_nonce, assigned, edited, reparsed>>

Prompts == {"retry_prompt", "restart_prompt", "next_prompt", "failure_prompt"}

\* The yes/no prompt that ends process_message, and main's loop: another
\* cycle starts, with new locals, or the program ends.
Answer ==
    /\ pc \in Prompts
    /\ \E a \in {"y", "1", "n"} :
        IF wants_more(pc, a)
        THEN /\ cycle < MaxCycles
             /\ cycle' = cycle + 1
             /\ pc' = "capture_prompt"
             /\ attempts' = 0
             /\ clipboard_content' = <<>>
             /\ edited' = NoEdit
             /\ choice' = ""
             /\ net' = NoNet
             /\ posted' = NoPost
             /\ sent' = NoSend
             /\ log' = <<>>
             /\ error' = "none"
             /\ UNCHANGED <<clipboard, fetch_data, new_content, new_nonce,
                            assigned, crash, reparsed>>
        ELSE /\ pc' = "done"
             /\ UNCHANGED <<cycle, clipboard, clipboard_content, attempts,
                            fetch_data, new_content, new_nonce, assigned, edited,
                            choice, net, posted, sent, log, error, crash, reparsed>>

\* main's except KeyboardInterrupt: the user interrupts a prompt.
Interrupt ==
    /\ pc \in Prompts \cup {"capture_prompt", "recapture_prompt", "content_prompt",
                            "nonce_prompt", "choice_prompt"}
    /\ pc' = "done"
    /\ UNCHANGED <<cycle, clipboard, clipboard_content, attempts, fetch_data,
                   new_content, new_nonce, assigned, edited, choice, net, posted,
                   sent, log, error, crash, reparsed>>

\* main's except Exception: the diagnostic, Enter, and the end.
CrashExit ==
    /\ pc = "crashed"
    /\ pc' = "done"
    /\ UNCHANGED <<cycle, clipboard, clipboard_content, attempts, fetch_data,
                   new_content, new_nonce, assigned, edited, choice, net, posted,
                   sent, log, error, crash, reparsed>>

Next ==
    \/ Capture
    \/ Recapture
    \/ EnterContent
    \/ EnterNonce
    \/ Choose
    \/ Answer
    \/ Interrupt
    \/ CrashExit

Spec == Init /\ [][Next]_vars

(***************************************************************************)
(* The pipeline by itself: extract_fetch_data on a capture, then           *)
(* edit_message_without_mark on the record, then either                    *)
(* extract_fetch_data on the rewritten text or send_request_directly on    *)
(* the rewritten request.                                                  *)
(***************************************************************************)
InitPure ==
    /\ Constructed
    /\ pc = "p_start"
    /\ clipboard \in {c.text : c \in Captures} \cup {JUNK}

\* r is what extract_fetch_data gave.
PExtracted(r) ==
    IF r.raised
    THEN crash' = r.val /\ UNCHANGED <<fetch_data, assigned>>
    ELSE /\ fetch_data' = r.val
         /\ assigned' = [assigned EXCEPT !.fetch_data = cycle]
         /\ UNCHANGED crash

\* extract_fetch_data(clipboard)
PExtract ==
    /\ pc = "p_start"
    /\ clipboard_content' = clipboard
    /\ log' = Append(log, "extract")
    /\ PExtracted(extract_fetch_data(clipboard))
    /\ pc' = "p_extracted"
    /\ UNCHANGED <<cycle, clipboard, attempts, new_content, new_nonce, edited,
                   choice, net, posted, sent, error, reparsed>>

\* r is what edit_message_without_mark gave.
PRewritten(r) ==
    IF r.raised
    THEN crash' = r.val /\ UNCHANGED edited
    ELSE edited' = r.val /\ UNCHANGED crash

\* edit_message_without_mark on the extracted record, for a new text and an
\* identifier.
PEdit ==
    /\ pc = "p_extracted"
    /\ fetch_data # None
    /\ \E c \in Texts(MaxLen), n \in Nonces :
        /\ new_content' = c
        /\ new_nonce' = n
        /\ PRewritten(edit_message_without_mark(fetch_data, c, n))
    /\ log' = Append(log, "rewrite")
    /\ pc' = "p_edited"
    /\ UNCHANGED <<cycle, clipboard, clipboard_content, attempts, fetch_data,
                   assigned, choice, net, posted, sent, error, reparsed>>

\* extract_fetch_data on the rewritten text.
PReparse ==
    /\ pc = "p_edited"
    /\ reparsed' = extract_fetch_data(edited.fetch_request).val
    /\ pc' = "p_reparsed"
    /\ UNCHANGED <<cycle, clipboard, clipboard_content, attempts, fetch_data,
                   new_content, new_nonce, assigned, edited, choice, net, posted,
                   sent, log, error, crash>>

\* r is what send_request_directly gave.
PSent(r) ==
    IF r.raised
    THEN crash' = r.val /\ UNCHANGED sent
    ELSE sent' = r.val /\ UNCHANGED crash

\* send_request_directly on the rewritten request, for each thing the
\* network may do.
PSend ==
    /\ pc = "p_edited"
    /\ \E n \in NetOutcomes :
        /\ net' = n
        /\ PSent(send_request_directly(edited.request_data, n))
    /\ posted' = edited.request_data
    /\ log' = Append(log, "post")
    /\ pc' = "p_sent"
    /\ UNCHANGED <<cycle, clipboard, clipboard_content, attempts, fetch_data,
                   new_content, new_nonce, assigned, edited, choice, error,
                   reparsed>>

NextPure ==
    \/ PExtract
    \/ PEdit
    \/ PReparse
    \/ PSend

SpecPure == InitPure /\ [][NextPure]_vars

(***************************************************************************)
(* Properties                                                              *)
(***************************************************************************)
\* The number of events e in this cycle's log, and whether there is one.
Count(e) == Cardinality({i \in 1..Len(log) : log[i] = e})
Logged(e) == \E i \in 1..Len(log) : log[i] = e

\* The set of keys of a dict.
KeySet(d) == {d.items[i][1] : i \in 1..Len(d.items)}

\* The positions of event e in this cycle's log.
Positions(e) == {i \in 1..Len(log) : log[i] = e}

\* All four stages of extract_fetch_data pass on text t.
StagesPass(t) ==
    /\ url_match(t).found
    /\ headers_match(t).found
    /\ headers_loads(t).ok
    /\ headers_loads(t).val.t = "dict"
    /\ body_match(t).found
    /\ body_loads(t).ok
    /\ body_loads(t).val.t = "dict"
    /\ HasKey(body_loads(t).val, NONCE)

\* C1: extract_fetch_data is all-or-nothing. It never raises; it returns a
\* record exactly when the endpoint pattern matched, a headers block was
\* found and parsed as a mapping, a body block was found and parsed as a
\* mapping, and the body has the key nonce; the record then has every field
\* populated from those parts, and the capture it came from was one whose
\* parts are all well-formed. Otherwise it returns None.
ExtractAllOrNothing ==
    pc = "p_extracted" =>
        /\ crash = "none"
        /\ (fetch_data # None) <=> StagesPass(clipboard_content)
        /\ fetch_data # None =>
            /\ fetch_data.url = url_match(clipboard_content).group
            /\ fetch_data.headers = headers_loads(clipboard_content).val
            /\ fetch_data.body = body_loads(clipboard_content).val
            /\ fetch_data.original_nonce = Get(fetch_data.body, NONCE)
            /\ fetch_data.original_content = GetOr(fetch_data.body, CONTENT, Str(<<>>))
            /\ \E c \in Captures : c.text = clipboard_content /\ c.ok

\* Scenario A is extracted: content hi, nonce 111.
ExtractScenarioA ==
    /\ pc = "p_extracted"
    /\ fetch_data # None
    /\ fetch_data.url = URL_MESSAGES_123
    /\ fetch_data.original_content = Str(<<"h", "i">>)
    /\ fetch_data.original_nonce = Str(<<"1", "1", "1">>)

\* C3: for every record, new text and non-empty identifier, the request
\* edit_message_without_mark returns has the record's url and headers, and a
\* body equal to the record's at every key but content and nonce, with
\* content the new text and nonce the new identifier.
RewriteStructuredForm ==
    (pc = "p_edited" /\ new_nonce # <<>>) =>
        /\ crash = "none"
        /\ edited # NoEdit
        /\ edited.request_data.url = fetch_data.url
        /\ Plain(edited.request_data.headers) = Plain(fetch_data.headers)
        /\ Get(edited.request_data.json, CONTENT) = Str(new_content)
        /\ Get(edited.request_data.json, NONCE) = Str(new_nonce)
        /\ KeySet(edited.request_data.json) = KeySet(fetch_data.body) \cup {CONTENT, NONCE}
        /\ \A k \in KeySet(fetch_data.body) \ {CONTENT, NONCE} :
              Plain(Get(edited.request_data.json, k)) = Plain(Get(fetch_data.body, k))

\* Scenario B, with the text a for bye: body {content: hi, nonce: 111}
\* rewritten with nonce 999 is exactly {content: a, nonce: 999}.
RewriteScenarioB ==
    /\ pc = "p_edited"
    /\ new_content = <<"a">>
    /\ new_nonce = <<"9", "9", "9">>
    /\ fetch_data.original_content = Str(<<"h", "i">>)
    /\ Plain(edited.request_data.json) =
           [t |-> "dict", items |-> << <<CONTENT, Str(<<"a">>)>>,
                                       <<NONCE, Str(<<"9", "9", "9">>)>> >>]

\* C4: the request edit_message_without_mark returns shares no mutable
\* object with the captured record: neither its body (nested values
\* included) with the captured body, nor its headers with the captured
\* headers.
RewriteSharesNothing ==
    (pc = "p_edited" /\ edited # NoEdit) =>
        /\ Objects(edited.request_data.json) \cap Objects(fetch_data.body) = {}
        /\ Objects(edited.request_data.headers) \cap Objects(fetch_data.headers) = {}

\* C5: send_request_directly never raises and always returns a result:
\* Success with the parsed response body exactly when the status is 200 and
\* the body parses; for another status a Failure with that status and the
\* raw text; for an exception out of the POST a Failure with its message.
SendResult ==
    pc = "p_sent" =>
        /\ crash = "none"
        /\ sent # NoSend
        /\ sent.success <=> (/\ net.kind = "response"
                             /\ net.status = 200
                             /\ json_loads(net.text, "response").ok)
        /\ sent.success => sent.data = json_loads(net.text, "response").val
        /\ (net.kind = "response" /\ net.status # 200) =>
              sent.data = [kind |-> "http", status |-> net.status, text |-> net.text]
        /\ net.kind = "raise" => sent.data.msg = net.exc

\* Scenario D: a 403 response gives a Failure with 403 and the text.
SendScenarioD ==
    /\ pc = "p_sent"
    /\ net.kind = "response"
    /\ net.status = 403
    /\ ~sent.success
    /\ sent.data.status = 403
    /\ sent.data.text = <<"F", "o", "r", "b", "i", "d", "d", "e", "n">>

\* C6: for every record, new text and non-empty identifier,
\* extract_fetch_data on the text edit_message_without_mark wrote succeeds
\* and recovers the new text as content and the identifier as nonce.
RoundTripRecovers ==
    (pc = "p_reparsed" /\ new_nonce # <<>>) =>
        /\ reparsed # None
        /\ Get(reparsed.body, CONTENT) = Str(new_content)
        /\ Get(reparsed.body, NONCE) = Str(new_nonce)

\* C2: an empty identifier aborts the cycle before the rewrite. It is
\* reported as EmptyIdentifier, nothing has been rewritten, written to the
\* buffer or posted, the buffer still holds the text that was read, and the
\* program is at the retry prompt (or has ended from it); and whenever the
\* rewrite has run, the identifier is not empty.
EmptyIdentifierAborts ==
    /\ (assigned.new_nonce = cycle /\ new_nonce = <<>>) => error = "EmptyIdentifier"
    /\ error = "EmptyIdentifier" =>
        /\ new_nonce = <<>>
        /\ ~Logged("rewrite") /\ ~Logged("write") /\ ~Logged("post")
        /\ edited = NoEdit /\ posted = NoPost
        /\ clipboard = clipboard_content
        /\ pc \in {"retry_prompt", "done"}
    /\ Logged("rewrite") => new_nonce # <<>>

\* The empty identifier has been entered and the retry prompt is up.
EmptyIdentifierAtRetry ==
    /\ error = "EmptyIdentifier"
    /\ pc = "retry_prompt"
    /\ fetch_data # None

\* C7: the capture retry is bounded. At most 3 re-prompts and at most 4
\* reads of the buffer per cycle; CaptureMismatch is reported after the
\* fourth read failed, without a call of extract; extract is called at most
\* once per cycle and only on a text that, stripped, starts with fetch(.
CaptureRetryBounded ==
    /\ attempts <= 3
    /\ Count("read") <= 4
    /\ Count("extract") <= 1
    /\ Logged("extract") => startswith(strip(clipboard_content), FETCH_CALL)
    /\ pc = "recapture_prompt" =>
        (~Logged("extract") /\ Count("read") = attempts /\ attempts >= 1)
    /\ error = "CaptureMismatch" =>
        /\ Count("read") = 4
        /\ attempts = 3
        /\ ~Logged("extract")
        /\ ~startswith(strip(clipboard_content), FETCH_CALL)
        /\ pc \in {"retry_prompt", "done"}

\* Four reads failed and CaptureMismatch is reported.
CaptureMismatchReported ==
    /\ error = "CaptureMismatch"
    /\ pc = "retry_prompt"
    /\ Count("read") = 4

\* C8: in a cycle with a POST, the rewritten text was written to the buffer
\* before the POST, exactly once, and nothing is written after it: whatever
\* the dispatch gave, the buffer holds that cycle's rewritten text.
ReplayTextInBuffer ==
    Logged("post") =>
        /\ Count("write") = 1
        /\ \A w \in Positions("write"), q \in Positions("post") : w < q
        /\ edited # NoEdit
        /\ clipboard = edited.fetch_request

\* The dispatch failed and the rewritten text is in the buffer.
FailureWithReplayText ==
    /\ error = "DispatchFailure"
    /\ pc = "failure_prompt"
    /\ clipboard = edited.fetch_request

\* C9 as stated: the buffer is read exactly once in a cycle. Checked where
\* the capture phase of the cycle is over.
OneReadPerCycle ==
    pc \in Prompts \cup {"content_prompt", "nonce_prompt", "choice_prompt"} =>
        Count("read") = 1

\* C9 as amended: in a cycle the buffer is read at least once and at most 4
\* times, every read comes before any write, there is at most one write,
\* and it comes only after extract succeeded and a non-empty identifier was
\* entered in that cycle.
ReadsBeforeTheOneWrite ==
    /\ Count("read") <= 4
    /\ pc \notin {"capture_prompt", "done"} => Count("read") >= 1
    /\ log # <<>> => log[1] = "read"
    /\ \A r \in Positions("read"), w \in Positions("write") : r < w
    /\ Count("write") <= 1
    /\ Logged("write") =>
        /\ \E x \in Positions("extract") : \A w \in Positions("write") : x < w
        /\ fetch_data # None
        /\ assigned.fetch_data = cycle
        /\ new_nonce # <<>>
        /\ assigned.new_nonce = cycle

\* The buffer was read more than once and then written.
WriteAfterSeveralReads ==
    /\ Count("read") > 1
    /\ Count("write") = 1
    /\ pc = "choice_prompt"

\* C10: nothing leaks from one cycle into the next one's rewrite or POST.
\* The rewrite runs at most once per cycle and only on the record extracted
\* in this cycle from the text read in this cycle, with the text and the
\* identifier entered in this cycle, so it never fails for want of a
\* record; there is at most one POST per cycle, only on choice 1, and it
\* carries this cycle's rewritten request to this cycle's endpoint.
NoLeakBetweenCycles ==
    /\ Count("rewrite") <= 1
    /\ Count("post") <= 1
    /\ crash # "ValueError"
    /\ Logged("rewrite") =>
        /\ fetch_data # None
        /\ assigned = [fetch_data |-> cycle, new_content |-> cycle, new_nonce |-> cycle]
        /\ fetch_data = extract_fetch_data(clipboard_content).val
        /\ edited # NoEdit
        /\ edited.request_data.url = fetch_data.url
        /\ Get(edited.request_data.json, CONTENT) = Str(new_content)
        /\ Get(edited.request_data.json, NONCE) = Str(new_nonce)
    /\ (Logged("post") \/ posted # NoPost \/ net # NoNet) =>
        /\ choice = "1"
        /\ Logged("rewrite")
        /\ posted = edited.request_data
        /\ posted.url = fetch_data.url

\* In the second cycle the capture failed while the first cycle's record is
\* still in the editor.
StaleRecordAfterFailedCapture ==
    /\ cycle = 2
    /\ error = "CaptureMismatch"
    /\ fetch_data # None
    /\ assigned.fetch_data = 1
    /\ pc = "retry_prompt"

====
